---- MODULE Spec2Model ----
(***************************************************************************)
(* Model of the material-estimation engine of silicon_calc:                *)
(* calculate_project_materials (src/silicon_calculator.py, lines 9-88).    *)
(*                                                                         *)
(* The engine is one synchronous function.  A call is one action,          *)
(* Calculate, which takes the caller's table and the eight configuration   *)
(* arguments and leaves behind what the caller receives (ret: the result   *)
(* tuple, or the exception that propagated) and the set of engine locals   *)
(* that had been assigned when the function was left (computed).           *)
(*                                                                         *)
(* Numbers.  The code works on Python/numpy floats.  The model computes    *)
(* with exact rationals <<n, d>> (d > 0, lowest terms): +, *, / and        *)
(* math.ceil are the real-number operations, binary rounding error of the  *)
(* floats is not modelled.  Division by a zero float follows numpy: the    *)
(* quotient is inf or nan and math.ceil of it raises.                      *)
(***************************************************************************)
EXTENDS Integers, Sequences, FiniteSets, TLC

VARIABLES df, cfg, ret, computed, log, app

vars == <<df, cfg, ret, computed, log, app>>

(***************************************************************************)
(* Bounds of the model.                                                    *)
(***************************************************************************)
MaxRows == 2
MaxCalls == 3

(***************************************************************************)
(* Literals of the source.                                                 *)
(***************************************************************************)
TwoSides == 2
PercentBase == 100
CmPerMeter == 100
RubberFactor == 3

(***************************************************************************)
(* Exact rational arithmetic standing for the float operators.            *)
(***************************************************************************)
Abs(x) == IF x < 0 THEN -x ELSE x

RECURSIVE Gcd(_, _)
Gcd(a, b) == IF b = 0 THEN a ELSE Gcd(b, a % b)

Norm(n, d) ==
    LET s == IF d < 0 THEN -1 ELSE 1
        g == Gcd(Abs(n), Abs(d))
    IN  <<(s * n) \div g, (s * d) \div g>>

R(n) == <<n, 1>>
Zero == R(0)

RAdd(a, b) == Norm(a[1] * b[2] + b[1] * a[2], a[2] * b[2])
RMul(a, b) == Norm(a[1] * b[1], a[2] * b[2])
RDiv(a, b) == Norm(a[1] * b[2], a[2] * b[1])
RLe(a, b) == a[1] * b[2] <= b[1] * a[2]
RLt(a, b) == a[1] * b[2] < b[1] * a[2]
RPos(a) == a[1] > 0
RIsInt(a) == a[2] = 1

\* A plausible slip in the rounding: floor + 1, which over-rounds an exact
\* multiple.
CeilOverRound(a) == (a[1] \div a[2]) + 1

\* math.ceil: the least integer >= a.
Ceil(a) == -((-a[1]) \div a[2])

(***************************************************************************)
(* Inputs.  A cell of the caller's table is a number, a string that        *)
(* parses as a number, or a string that does not.  The engine itself sets  *)
(* no limits on the values, so the sets hold rows inside and outside the   *)
(* WindowEntry invariant (width > 0, height > 0, quantity >= 1).           *)
(***************************************************************************)
Num(n, d) == [k |-> "num", v |-> Norm(n, d)]
NumStr(n) == [k |-> "numstr", v |-> R(n)]
BadStr == [k |-> "str", v |-> Zero]

Row(w, h, q) == [Width |-> w, Height |-> h, Quantity |-> q]

ValidRows ==
    { Row(Num(1, 1), Num(1, 1), Num(1, 1)),
      Row(Num(2, 1), Num(2, 1), NumStr(2)),
      Row(Num(1, 2), Num(2, 1), Num(1, 1)) }

InvalidRows ==
    { Row(Num(-1, 1), Num(1, 2), Num(1, 1)),
      Row(Num(1, 1), Num(1, 1), Num(0, 1)),
      Row(BadStr, Num(1, 1), Num(1, 1)) }

RowSet == ValidRows \cup InvalidRows

RECURSIVE SeqsUpTo(_, _)
SeqsUpTo(S, n) ==
    IF n = 0 THEN {<<>>}
    ELSE LET shorter == SeqsUpTo(S, n - 1)
         IN  shorter \cup { Append(t, x) : t \in shorter, x \in S }

Tables == SeqsUpTo(RowSet, MaxRows)

Side(w, d, vol) == [width |-> R(w), depth |-> R(d), vol |-> R(vol)]

\* joint width mm, joint depth mm, can volume ml
SideSet ==
    { Side(10, 10, 100),   \* 1 m per can
      Side(5, 5, 50),      \* 2 m per can
      Side(0, 10, 100),    \* zero width
      Side(10, 0, 100),    \* zero depth
      Side(-5, 5, 50),     \* negative cross-section
      Side(10, 10, 0) }    \* empty can: zero yield

SpacingSet == { R(-10), R(0), R(40) }
WasteSet == { R(0), R(10), R(50) }

Config(e, i, s, w) ==
    [ext_width_mm |-> e.width, ext_depth_mm |-> e.depth, ext_can_vol_ml |-> e.vol,
     int_width_mm |-> i.width, int_depth_mm |-> i.depth, int_can_vol_ml |-> i.vol,
     screw_spacing_cm |-> s, waste_factor_percent |-> w]

Configs == { Config(e, i, s, w) : e \in SideSet, i \in SideSet,
                                   s \in SpacingSet, w \in WasteSet }

ExtSide(c) == [width |-> c.ext_width_mm, depth |-> c.ext_depth_mm, vol |-> c.ext_can_vol_ml]
IntSide(c) == [width |-> c.int_width_mm, depth |-> c.int_depth_mm, vol |-> c.int_can_vol_ml]

(***************************************************************************)
(* The engine, line by line.                                               *)
(***************************************************************************)
\* pd.to_numeric on one cell: numbers pass, numeric strings are parsed,
\* any other string raises ValueError.
Parses(c) == c.k # "str"
ToNumeric(c) == [k |-> "num", v |-> c.v]

\* lines 32-34: the three columns of the copy are coerced, in this order.
ColumnParses(d, col) == \A i \in 1..Len(d) : Parses(d[i][col])
AllParse(d) ==
    ColumnParses(d, "Width") /\ ColumnParses(d, "Height") /\ ColumnParses(d, "Quantity")

Coerced(d) ==
    [i \in 1..Len(d) |->
        [Width |-> ToNumeric(d[i].Width).v,
         Height |-> ToNumeric(d[i].Height).v,
         Quantity |-> ToNumeric(d[i].Quantity).v]]

\* A slip: the perimeter of one window without the factor 2.
HalfPerimeter(w, h) == RAdd(w, h)

\* line 37
PerimeterSingle(w, h) == RMul(RAdd(w, h), R(TwoSides))

\* line 40
PerimeterTotalType(single, q) == RMul(single, q)

\* lines 37-40: the two derived columns are added to the copy.
WithPerimeters(rows) ==
    [i \in 1..Len(rows) |->
        LET single == PerimeterSingle(rows[i].Width, rows[i].Height)
        IN  [Width |-> rows[i].Width, Height |-> rows[i].Height,
             Quantity |-> rows[i].Quantity,
             Perimeter_Single |-> single,
             Perimeter_Total_Type |-> PerimeterTotalType(single, rows[i].Quantity)]]

\* line 43: Series.sum(), 0 for an empty column.
RECURSIVE ColumnSum(_)
ColumnSum(rows) ==
    IF rows = <<>> THEN Zero
    ELSE RAdd(ColumnSum(SubSeq(rows, 1, Len(rows) - 1)),
              rows[Len(rows)].Perimeter_Total_Type)

\* line 46
WasteMultiplier(waste) == RAdd(R(1), RDiv(waste, R(PercentBase)))

\* A slip: the single-material "both faces" doubling applied to a side.
DoubledLength(total, mult) == RMul(RMul(total, R(TwoSides)), mult)

\* lines 49 and 59
SideLength(total, mult) == RMul(total, mult)

\* lines 51 and 61
VolPerMeter(side) == RMul(side.width, side.depth)

\* A slip: >= 0 instead of > 0 lets a zero cross-section reach the division.
GeometryNonNegative(vpm) == ~RLt(vpm, Zero)

\* lines 52 and 62: the guard of the can computation.
GeometryUsable(vpm) == RPos(vpm)

\* lines 53 and 63: can volume / cross-section, taken only under the guard.
MetersPerCan(side) == RDiv(side.vol, VolPerMeter(side))

\* lines 54 and 64 raise when the yield is zero: a numpy float divided by 0.0
\* is inf (nan for 0/0) and math.ceil of it raises OverflowError (ValueError).
\* With the guard slipped to >= 0, line 53/63 itself divides by zero.
CansRaise(side) ==
    /\ GeometryUsable(VolPerMeter(side))
    /\ (VolPerMeter(side) = Zero \/ MetersPerCan(side) = Zero)

CansError(len, side) ==
    IF VolPerMeter(side) = Zero THEN "ZeroDivisionError"
    ELSE IF len = Zero THEN "ValueError" ELSE "OverflowError"

\* lines 52-56 and 62-66
Cans(len, side) ==
    IF GeometryUsable(VolPerMeter(side))
    THEN Ceil(RDiv(len, MetersPerCan(side)))
    ELSE 0

\* A slip: screws counted on the length with waste.
ScrewsFromWasted(total, spacing, mult) ==
    IF RPos(spacing)
    THEN Ceil(RDiv(RMul(total, mult), RDiv(spacing, R(CmPerMeter))))
    ELSE 0

\* lines 69-73 (mult is not read: the raw perimeter is used)
Screws(total, spacing, mult) ==
    IF RPos(spacing)
    THEN Ceil(RDiv(total, RDiv(spacing, R(CmPerMeter))))
    ELSE 0

\* A slip: the gasket run without the waste allowance.
RubberNoWaste(total, mult) == RMul(total, R(RubberFactor))

\* line 77
Rubber(total, mult) == RMul(RMul(total, R(RubberFactor)), mult)

LocalsAtCoercion == {"df"}
LocalsAtExt ==
    LocalsAtCoercion \cup
    {"total_project_perimeter", "waste_multiplier", "total_ext_length",
     "ext_vol_per_meter_ml", "ext_meters_per_can"}
LocalsAtInt ==
    LocalsAtExt \cup
    {"ext_cans", "total_int_length", "int_vol_per_meter_ml", "int_meters_per_can"}
LocalsAtReturn ==
    (LocalsAtInt \ {"ext_meters_per_can", "int_meters_per_can"}) \cup
    {"int_cans", "total_screws", "total_rubber_length"}

Raised(exc, locals) == [ret |-> [kind |-> "raise", exc |-> exc], computed |-> locals]

\* calculate_project_materials(df, ext..., int..., screw_spacing_cm,
\* waste_factor_percent): what the caller receives and the locals assigned
\* when the function is left.
Engine(d, c) ==
    IF ~AllParse(d) THEN Raised("ValueError", LocalsAtCoercion)
    ELSE
    LET rows == WithPerimeters(Coerced(d))
        total == ColumnSum(rows)
        mult == WasteMultiplier(c.waste_factor_percent)
        extLen == SideLength(total, mult)
        intLen == SideLength(total, mult)
        mpc == {"ext_meters_per_can", "int_meters_per_can"}
    IN  IF CansRaise(ExtSide(c))
        THEN Raised(CansError(extLen, ExtSide(c)), LocalsAtExt)
        ELSE IF CansRaise(IntSide(c))
        THEN Raised(CansError(intLen, IntSide(c)),
                    IF GeometryUsable(VolPerMeter(ExtSide(c)))
                    THEN LocalsAtInt ELSE LocalsAtInt \ {"ext_meters_per_can"})
        ELSE
        [ret |->
            [kind |-> "ok",
             rows |-> rows,
             total_project_perimeter |-> total,
             total_ext_length |-> extLen,
             total_int_length |-> intLen,
             ext_cans |-> Cans(extLen, ExtSide(c)),
             int_cans |-> Cans(intLen, IntSide(c)),
             total_screws |-> Screws(total, c.screw_spacing_cm, mult),
             total_rubber_length |-> Rubber(total, mult)],
         computed |->
            LocalsAtReturn
            \cup (IF GeometryUsable(VolPerMeter(ExtSide(c)))
                  THEN {"ext_meters_per_can"} ELSE {})
            \cup (IF GeometryUsable(VolPerMeter(IntSide(c)))
                  THEN {"int_meters_per_can"} ELSE {})
            \cup (IF RPos(c.screw_spacing_cm) THEN {"spacing_m"} ELSE {})]

(***************************************************************************)
(* The state machine: a caller holds a table and a configuration and       *)
(* invokes the engine on them.  log is the caller's record of its          *)
(* invocations: the table it passed, the configuration, the table it holds *)
(* afterwards and what it received.                                        *)
(***************************************************************************)
NoCall == [kind |-> "none"]

\* lines 32-40 as they act on the table object they are applied to: the
\* three columns are replaced by their numeric form and the two perimeter
\* columns are added.
AssignedInPlace(d) ==
    [i \in 1..Len(d) |->
        LET w == ToNumeric(d[i].Width)
            h == ToNumeric(d[i].Height)
            q == ToNumeric(d[i].Quantity)
            single == PerimeterSingle(w.v, h.v)
        IN  [Width |-> w, Height |-> h, Quantity |-> q,
             Perimeter_Single |-> [k |-> "num", v |-> single],
             Perimeter_Total_Type |->
                [k |-> "num", v |-> PerimeterTotalType(single, q.v)]]]

\* A slip: without the copy of line 31 the assignments land on the caller's
\* table (when a column fails to parse, nothing past it was assigned).
TableWithoutCopy(d) == IF AllParse(d) THEN AssignedInPlace(d) ELSE d

\* line 31, df = df.copy(): the name df is rebound to a copy and every later
\* assignment goes to the copy, so the caller's table is as passed.
CallerTableAfter(d) == d

Invocation(before, c, after, r) ==
    [before |-> before, cfg |-> c, after |-> after, ret |-> r]

RequiredColumns == {"Width", "Height", "Quantity"}

\* No file in the uploader.
NoFile == [present |-> FALSE, readable |-> FALSE, columns |-> {}, rows |-> <<>>]

\* initialize_state: the session's window list starts with one row,
\* 1.2 x 1.5 m, quantity 10.
InitialWindows == <<Row(Num(12, 10), Num(15, 10), Num(10, 1))>>

\* The application before main() has produced anything: the session table,
\* the input method and file of the last run, project_df (has_df: it is not
\* None; its columns and rows) and the messages on screen.
AppIdle ==
    [windows |-> InitialWindows, method |-> "none", file |-> NoFile,
     has_df |-> FALSE, columns |-> {}, table |-> <<>>, shown |-> {}]

Init ==
    /\ df \in Tables
    /\ cfg \in Configs
    /\ ret = NoCall
    /\ computed = {}
    /\ log = <<>>
    /\ app = AppIdle

\* One invocation of the engine on the table and configuration the caller
\* has prepared.
Calculate ==
    /\ ret.kind = "none"
    /\ LET out == Engine(df, cfg)
           after == CallerTableAfter(df)
       IN  /\ ret' = out.ret
           /\ computed' = out.computed
           /\ df' = after
           /\ log' = Append(log, Invocation(df, cfg, after, out.ret))
    /\ UNCHANGED <<cfg, app>>

Next == Calculate

Spec == Init /\ [][Next]_vars

(***************************************************************************)
(* A caller that invokes the engine several times, on other tables and     *)
(* configurations in between (as the three tests of test_calculator.py do  *)
(* in one process).                                                        *)
(***************************************************************************)
SessionTables ==
    { <<Row(Num(1, 1), Num(1, 1), Num(1, 1))>>,
      <<Row(Num(2, 1), Num(2, 1), NumStr(2))>>,
      <<Row(Num(1, 1), Num(1, 1), Num(1, 1)), Row(Num(2, 1), Num(2, 1), NumStr(2))>>,
      <<Row(BadStr, Num(1, 1), Num(1, 1))>> }

SessionConfigs ==
    { Config(Side(10, 10, 100), Side(5, 5, 50), R(40), R(0)),
      Config(Side(10, 10, 100), Side(5, 5, 50), R(40), R(50)) }

SessionInit ==
    /\ df \in SessionTables
    /\ cfg \in SessionConfigs
    /\ ret = NoCall
    /\ computed = {}
    /\ log = <<>>
    /\ app = AppIdle

\* The caller builds the arguments of its next invocation; the result of the
\* previous one has been consumed.
Prepare(d, c) ==
    /\ ret.kind # "none"
    /\ Len(log) < MaxCalls
    /\ df' = d
    /\ cfg' = c
    /\ ret' = NoCall
    /\ computed' = {}
    /\ UNCHANGED <<log, app>>

SessionNext ==
    \/ Calculate
    \/ \E d \in SessionTables, c \in SessionConfigs : Prepare(d, c)

SessionSpec == SessionInit /\ [][SessionNext]_vars

(***************************************************************************)
(* The application: main() runs from top to bottom on every interaction    *)
(* (one action per run).  The PDF rendering that follows a successful      *)
(* engine call is not modelled.                                            *)
(***************************************************************************)
\* What the data editor can hand back: rows within its column limits
\* (width, height >= 0.1, quantity >= 1), possibly none.
ManualTables ==
    { <<>>,
      InitialWindows,
      <<Row(Num(1, 1), Num(1, 1), Num(1, 1))>>,
      <<Row(Num(12, 10), Num(15, 10), Num(10, 1)), Row(Num(1, 1), Num(1, 1), Num(1, 1))>>,
      <<Row(Num(1, 1), Num(1, 1), Num(1, 1)), Row(Num(1, 2), Num(2, 1), Num(1, 1))>> }

File(readable, columns, rows) ==
    [present |-> TRUE, readable |-> readable, columns |-> columns, rows |-> rows]

\* What the uploader can hold: nothing, a file pandas cannot read, files
\* lacking a required column, a file with the columns and no rows, and files
\* with the columns and rows (valid, out of range, not numeric).
UploadSet ==
    { NoFile,
      File(FALSE, {}, <<>>),
      File(TRUE, {"Width", "Height"}, <<Row(Num(1, 1), Num(1, 1), Num(1, 1))>>),
      File(TRUE, {"Height", "Quantity", "Notes"}, <<Row(Num(1, 1), Num(1, 1), Num(1, 1))>>),
      File(TRUE, {"Notes"}, <<Row(Num(1, 1), Num(1, 1), Num(1, 1))>>),
      File(TRUE, RequiredColumns, <<>>),
      File(TRUE, RequiredColumns, <<Row(Num(1, 1), Num(1, 1), Num(1, 1))>>),
      File(TRUE, RequiredColumns \cup {"Notes"},
           <<Row(Num(1, 1), Num(1, 1), Num(1, 1)), Row(Num(2, 1), Num(2, 1), Num(2, 1))>>),
      File(TRUE, RequiredColumns, <<Row(Num(-1, 1), Num(1, 2), Num(1, 1))>>),
      File(TRUE, RequiredColumns, <<Row(BadStr, Num(1, 1), Num(1, 1))>>) }

\* Sidebar settings within the widgets' limits (lines 228-275).
SidebarConfigs ==
    { Config(Side(5, 5, 600), Side(5, 5, 310), R(40), R(10)),
      Config(Side(10, 10, 100), Side(5, 5, 100), R(40), R(0)),
      Config(Side(10, 10, 100), Side(5, 5, 100), R(20), R(30)) }

\* A slip: any() for all() lets a file with one of the columns through.
AnyRequiredColumn(columns) == RequiredColumns \cap columns # {}

\* line 347: all(col in df.columns for col in ["Width", "Height", "Quantity"])
HasRequiredColumns(columns) == RequiredColumns \subseteq columns

\* DataFrame.empty: no rows or no columns.
IsEmpty(columns, table) == table = <<>> \/ columns = {}

\* The engine on a table with the given columns: lines 32-34 raise KeyError
\* when one of the three is absent.
EngineOnColumns(columns, d, c) ==
    IF RequiredColumns \subseteq columns THEN Engine(d, c)
    ELSE Raised("KeyError", LocalsAtCoercion)

AppInit ==
    /\ df = <<>>
    /\ cfg \in SidebarConfigs
    /\ ret = NoCall
    /\ computed = {}
    /\ log = <<>>
    /\ app = AppIdle

\* lines 357-448: with project_df set and not empty the engine is called in a
\* try block (results, or the error of the except clause); otherwise the
\* prompt to add data is shown.
Results(windows, method, file, has_df, columns, table, shown, c) ==
    IF has_df /\ ~IsEmpty(columns, table)
    THEN LET out == EngineOnColumns(columns, table, c)
             after == CallerTableAfter(table)
         IN  /\ df' = after
             /\ ret' = out.ret
             /\ computed' = out.computed
             /\ log' = <<Invocation(table, c, after, out.ret)>>
             /\ app' = [windows |-> windows, method |-> method, file |-> file,
                        has_df |-> has_df, columns |-> columns, table |-> after,
                        shown |-> shown \cup
                            {IF out.ret.kind = "ok" THEN "results" ELSE "calc_error"}]
    ELSE /\ df' = <<>>
         /\ ret' = NoCall
         /\ computed' = {}
         /\ log' = <<>>
         /\ app' = [windows |-> windows, method |-> method, file |-> file,
                    has_df |-> has_df, columns |-> columns, table |-> table,
                    shown |-> shown \cup {"add_data"}]

\* lines 303-324: the data editor's table becomes the session table and
\* project_df.
RunManual(edited, c) ==
    /\ cfg' = c
    /\ Results(edited, "manual", NoFile, TRUE, RequiredColumns, edited, {}, c)

\* lines 326-355: project_df is set only from a file that was read and has
\* the three columns; a read failure or a missing column shows an error.
RunUpload(file, c) ==
    /\ cfg' = c
    /\ IF ~file.present
       THEN Results(app.windows, "upload", file, FALSE, {}, <<>>, {}, c)
       ELSE IF ~file.readable
       THEN Results(app.windows, "upload", file, FALSE, {}, <<>>, {"read_error"}, c)
       ELSE IF HasRequiredColumns(file.columns)
       THEN Results(app.windows, "upload", file, TRUE, file.columns, file.rows,
                    {"success"}, c)
       ELSE Results(app.windows, "upload", file, FALSE, {}, <<>>,
                    {"missing_columns"}, c)

AppNext ==
    \/ \E t \in ManualTables, c \in SidebarConfigs : RunManual(t, c)
    \/ \E f \in UploadSet, c \in SidebarConfigs : RunUpload(f, c)

AppSpec == AppInit /\ [][AppNext]_vars

(***************************************************************************)
(* Vocabulary of the properties.                                           *)
(***************************************************************************)
Returned == ret.kind = "ok"
Failed == ret.kind = "raise"

\* k is the ceiling of q, stated without the engine's rounding: k - 1 < q <= k.
IsCeilingOf(k, q) == RLe(q, R(k)) /\ RLt(R(k - 1), q)

\* 1 + wasteFactorPercent / 100
WasteFactorOf(c) == RAdd(R(1), RDiv(c.waste_factor_percent, R(100)))

\* The WindowEntry invariant: numeric width > 0, height > 0, quantity >= 1.
EntryValid(row) ==
    /\ Parses(row.Width) /\ Parses(row.Height) /\ Parses(row.Quantity)
    /\ RPos(row.Width.v) /\ RPos(row.Height.v)
    /\ RLe(R(1), row.Quantity.v)

EntriesValid(d) == d # <<>> /\ \A i \in 1..Len(d) : EntryValid(d[i])

\* sum over the entries of 2 * (width + height) * quantity
RECURSIVE SumOfEntries(_)
SumOfEntries(d) ==
    IF d = <<>> THEN Zero
    ELSE RAdd(RMul(RMul(R(2), RAdd(Head(d).Width.v, Head(d).Height.v)),
                   Head(d).Quantity.v),
              SumOfEntries(Tail(d)))

Reorderings(d) ==
    { [i \in 1..Len(d) |-> d[f[i]]] : f \in Permutations(1..Len(d)) }

WithExt(c, s) ==
    [c EXCEPT !.ext_width_mm = s.width, !.ext_depth_mm = s.depth,
              !.ext_can_vol_ml = s.vol]
WithInt(c, s) ==
    [c EXCEPT !.int_width_mm = s.width, !.int_depth_mm = s.depth,
              !.int_can_vol_ml = s.vol]
WithWaste(c, w) == [c EXCEPT !.waste_factor_percent = w]

\* Sides with a positive cross-section and a positive can volume.
WorkingSides == { s \in SideSet : RPos(RMul(s.width, s.depth)) /\ RPos(s.vol) }

(***************************************************************************)
(* C1.  Perimeter additivity.                                              *)
(***************************************************************************)
\* C1: whenever the engine returns, the total perimeter is the sum over all
\* entries of 2*(width+height)*quantity, every retained row carries
\* Perimeter_Single = 2*(width+height) and Perimeter_Total_Type =
\* Perimeter_Single * quantity, and every reordering of the entries returns
\* the same total.
C1_PerimeterAdditivity ==
    Returned =>
        /\ ret.total_project_perimeter = SumOfEntries(df)
        /\ Len(ret.rows) = Len(df)
        /\ \A i \in 1..Len(df) :
              /\ ret.rows[i].Perimeter_Single =
                    RMul(R(2), RAdd(df[i].Width.v, df[i].Height.v))
              /\ ret.rows[i].Perimeter_Total_Type =
                    RMul(ret.rows[i].Perimeter_Single, df[i].Quantity.v)
        /\ \A p \in Reorderings(df) :
              LET again == Engine(p, cfg).ret
              IN  /\ again.kind = "ok"
                  /\ again.total_project_perimeter = ret.total_project_perimeter

\* Two different rows (perimeters 4 and 16) aggregated to 20.
C1_Witness ==
    /\ Returned
    /\ Len(df) = 2
    /\ df[1] # df[2]
    /\ ret.rows[1].Perimeter_Total_Type = R(4)
    /\ ret.rows[2].Perimeter_Total_Type = R(16)
    /\ ret.total_project_perimeter = R(20)

(***************************************************************************)
(* C2.  Input validation.                                                  *)
(***************************************************************************)
\* C2: the engine returns a result only for a non-empty table whose every
\* entry has numeric width > 0, height > 0 and quantity >= 1; on any other
\* table the call fails.
C2_RejectsInvalidEntries ==
    (ret.kind # "none") => (Returned <=> EntriesValid(df))

(***************************************************************************)
(* C3.  Ceiling of the can count.                                          *)
(***************************************************************************)
\* C3: whenever the engine returns, on each side whose joint width * depth is
\* positive the can count is the ceiling of lengthWithWaste / (canVolume /
\* (width * depth)); when that quotient is a whole number the can count is
\* the quotient itself.
C3_SideCeiling(len, cans, side) ==
    RPos(RMul(side.width, side.depth)) =>
        LET perCan == RDiv(side.vol, RMul(side.width, side.depth))
            q == RDiv(len, perCan)
        IN  /\ IsCeilingOf(cans, q)
            /\ RIsInt(q) => R(cans) = q

C3_CeilingProperty ==
    Returned =>
        /\ C3_SideCeiling(ret.total_ext_length, ret.ext_cans, ExtSide(cfg))
        /\ C3_SideCeiling(ret.total_int_length, ret.int_cans, IntSide(cfg))

\* Perimeter 4 with 50 % waste: 6 m at 1 m per can is exactly 6 cans, and
\* 6 m at 2 m per can is exactly 3.
C3_Witness ==
    /\ Returned
    /\ cfg.waste_factor_percent = R(50)
    /\ ret.total_ext_length = R(6)
    /\ ExtSide(cfg) = Side(10, 10, 100)
    /\ IntSide(cfg) = Side(5, 5, 50)
    /\ ret.ext_cans = 6
    /\ ret.int_cans = 3

(***************************************************************************)
(* C4.  Side lengths in dual-material mode.                                *)
(***************************************************************************)
\* C4: whenever the engine returns, the exterior and the interior length both
\* equal (sum over the entries of 2*(w+h)*q) * (1 + waste/100), with no
\* doubling, and they equal each other; the value is fixed by the entries and
\* the waste factor alone, whatever the joint widths, joint depths and can
\* volumes of the call.
C4_SideLengths ==
    Returned =>
        LET expected == RMul(SumOfEntries(df), WasteFactorOf(cfg))
        IN  /\ ret.total_ext_length = expected
            /\ ret.total_int_length = expected
            /\ ret.total_ext_length = ret.total_int_length

\* Perimeter 4 with 50 % waste: both sides 6 m, not 12.
C4_Witness ==
    /\ Returned
    /\ cfg.waste_factor_percent = R(50)
    /\ ret.total_project_perimeter = R(4)
    /\ ret.total_ext_length = R(6)
    /\ ret.total_int_length = R(6)
    /\ ExtSide(cfg) # IntSide(cfg)

(***************************************************************************)
(* C5.  Zero joint geometry degrades one can count only.                   *)
(***************************************************************************)
\* C5: when one side's joint width * depth is <= 0, the call has the same
\* outcome (returns or fails) as the same call with any working geometry on
\* that side, so the zero geometry itself raises nothing; and when it
\* returns, that side's can count is 0 while that side's length, the other
\* side's can count, the screw count and the gasket length are those of the
\* call with the working geometry.
C5_ExtDegrades ==
    ~RPos(RMul(cfg.ext_width_mm, cfg.ext_depth_mm)) =>
        \A s \in WorkingSides :
            LET pos == Engine(df, WithExt(cfg, s)).ret
            IN  /\ pos.kind = ret.kind
                /\ Returned =>
                      /\ ret.ext_cans = 0
                      /\ ret.total_ext_length = pos.total_ext_length
                      /\ ret.int_cans = pos.int_cans
                      /\ ret.total_screws = pos.total_screws
                      /\ ret.total_rubber_length = pos.total_rubber_length

C5_IntDegrades ==
    ~RPos(RMul(cfg.int_width_mm, cfg.int_depth_mm)) =>
        \A s \in WorkingSides :
            LET pos == Engine(df, WithInt(cfg, s)).ret
            IN  /\ pos.kind = ret.kind
                /\ Returned =>
                      /\ ret.int_cans = 0
                      /\ ret.total_int_length = pos.total_int_length
                      /\ ret.ext_cans = pos.ext_cans
                      /\ ret.total_screws = pos.total_screws
                      /\ ret.total_rubber_length = pos.total_rubber_length

C5_ZeroGeometryDegrades ==
    (ret.kind # "none") => (C5_ExtDegrades /\ C5_IntDegrades)

\* Exterior joint width 0: no exterior cans, 4.4 m of exterior length kept,
\* 3 interior cans at 2 m per can, 10 screws.
C5_Witness ==
    /\ Returned
    /\ cfg.ext_width_mm = Zero
    /\ ret.ext_cans = 0
    /\ ret.total_ext_length = Norm(44, 10)
    /\ IntSide(cfg) = Side(5, 5, 50)
    /\ ret.int_cans = 3
    /\ ret.total_screws = 10

(***************************************************************************)
(* C6.  Fasteners are counted on the raw perimeter.                        *)
(***************************************************************************)
\* C6: whenever the engine returns, the screw count is the ceiling of
\* (sum over the entries of 2*(w+h)*q) / (screwSpacingCm / 100) when the
\* spacing is positive and 0 otherwise, and the same call with any other
\* waste factor returns the same screw count.
C6_ScrewsFromRawPerimeter ==
    Returned =>
        /\ IF RPos(cfg.screw_spacing_cm)
           THEN IsCeilingOf(ret.total_screws,
                            RDiv(SumOfEntries(df),
                                 RDiv(cfg.screw_spacing_cm, R(100))))
           ELSE ret.total_screws = 0
        /\ \A w \in WasteSet :
              LET other == Engine(df, WithWaste(cfg, w)).ret
              IN  /\ other.kind = "ok"
                  /\ other.total_screws = ret.total_screws

\* Perimeter 4 at 40 cm spacing with 50 % waste: 10 screws, not 15.
C6_Witness ==
    /\ Returned
    /\ cfg.waste_factor_percent = R(50)
    /\ cfg.screw_spacing_cm = R(40)
    /\ ret.total_project_perimeter = R(4)
    /\ ret.total_ext_length = R(6)
    /\ ret.total_screws = 10

(***************************************************************************)
(* C7.  Waste monotonicity.                                                *)
(***************************************************************************)
\* C7: whenever the engine returns, the same call with any waste factor
\* w2 >= the call's (both >= 0) returns exterior length, interior length,
\* exterior cans, interior cans, screw count and gasket length that are each
\* >= the call's.
C7_WasteMonotone ==
    (Returned /\ RLe(Zero, cfg.waste_factor_percent)) =>
        \A w2 \in WasteSet :
            RLe(cfg.waste_factor_percent, w2) =>
                LET more == Engine(df, WithWaste(cfg, w2)).ret
                IN  /\ more.kind = "ok"
                    /\ RLe(ret.total_ext_length, more.total_ext_length)
                    /\ RLe(ret.total_int_length, more.total_int_length)
                    /\ ret.ext_cans <= more.ext_cans
                    /\ ret.int_cans <= more.int_cans
                    /\ ret.total_screws <= more.total_screws
                    /\ RLe(ret.total_rubber_length, more.total_rubber_length)

\* The same statement for calls inside the data model: valid entries and
\* non-negative can volumes.
C7_WasteMonotoneOnValidInput ==
    (EntriesValid(df) /\ RLe(Zero, cfg.ext_can_vol_ml) /\ RLe(Zero, cfg.int_can_vol_ml))
        => C7_WasteMonotone

(***************************************************************************)
(* C8.  Gasket estimate.                                                   *)
(***************************************************************************)
\* C8: whenever the engine returns, the gasket length is
\* (sum over the entries of 2*(w+h)*q) * 3 * (1 + waste/100): the factor is 3
\* for every joint geometry, can volume and screw spacing of the call.
C8_GasketEstimate ==
    Returned =>
        /\ ret.total_rubber_length =
              RMul(RMul(SumOfEntries(df), R(3)), WasteFactorOf(cfg))
        /\ ret.total_rubber_length =
              RMul(RMul(ret.total_project_perimeter, R(3)), WasteFactorOf(cfg))

\* Perimeter 4 with 50 % waste: 18 m of gasket.
C8_Witness ==
    /\ Returned
    /\ cfg.waste_factor_percent = R(50)
    /\ ret.total_project_perimeter = R(4)
    /\ ret.total_rubber_length = R(18)

(***************************************************************************)
(* C9.  Single-material mode.                                              *)
(***************************************************************************)
\* C9: for a call on valid entries with one sealant configured (both sides carry the same
\* joint and can, i.e. one yield metersPerCan = canVolume / (width * depth)),
\* the silicone length is totalPerimeter * 2 * (1 + waste/100) and the can
\* count is the ceiling of that length / metersPerCan; a yield <= 0 makes the
\* call fail instead of returning a zero count.
C9_SingleMaterialMode ==
    (ret.kind # "none" /\ EntriesValid(df) /\ ExtSide(cfg) = IntSide(cfg)
        /\ RPos(RMul(cfg.ext_width_mm, cfg.ext_depth_mm))) =>
        LET metersPerCan ==
                RDiv(cfg.ext_can_vol_ml, RMul(cfg.ext_width_mm, cfg.ext_depth_mm))
            lengthWithWaste ==
                RMul(RMul(SumOfEntries(df), R(2)), WasteFactorOf(cfg))
        IN  IF RPos(metersPerCan)
            THEN /\ Returned
                 /\ ret.total_ext_length = lengthWithWaste
                 /\ IsCeilingOf(ret.ext_cans, RDiv(lengthWithWaste, metersPerCan))
            ELSE Failed

(***************************************************************************)
(* C10.  Validation before aggregation.                                    *)
(***************************************************************************)
Aggregates ==
    {"total_project_perimeter", "total_ext_length", "total_int_length",
     "ext_cans", "int_cans", "total_screws", "total_rubber_length"}

ResultFields ==
    {"kind", "rows", "total_project_perimeter", "total_ext_length",
     "total_int_length", "ext_cans", "int_cans", "total_screws",
     "total_rubber_length"}

\* C10: a call that fails has computed no aggregate and hands back no result;
\* a call that returns hands back every field of the result and has computed
\* its aggregates from valid rows only.
C10_AtomicValidation ==
    /\ Failed => (computed \cap Aggregates = {} /\ DOMAIN ret = {"kind", "exc"})
    /\ Returned => (DOMAIN ret = ResultFields /\ EntriesValid(df))

\* The part of C10 the code does keep: the caller gets a whole result or an
\* exception, never some of the fields.
C10_NoPartialResult ==
    /\ Failed => DOMAIN ret = {"kind", "exc"}
    /\ Returned => (DOMAIN ret = ResultFields /\ Aggregates \subseteq computed)

C12_EngineOnCheckedTablesOnly ==
    /\ log # <<>> =>
          /\ app.has_df
          /\ log[1].before = app.table
          /\ log[1].before # <<>>
          /\ RequiredColumns \subseteq app.columns
          /\ app.method = "upload" =>
                (app.file.readable /\ RequiredColumns \subseteq app.file.columns
                    /\ log[1].before = app.file.rows)
    /\ (app.method = "upload" /\ app.file.present /\ ~app.file.readable) =>
          (log = <<>> /\ "read_error" \in app.shown)
    /\ (app.method = "upload" /\ app.file.present /\ app.file.readable
            /\ ~(RequiredColumns \subseteq app.file.columns)) =>
          (log = <<>> /\ "missing_columns" \in app.shown)
    /\ (app.method # "none" /\ (~app.has_df \/ app.table = <<>>)) =>
          (log = <<>> /\ "add_data" \in app.shown)

\* An upload with the three columns and rows reaches the engine and shows
\* results.
C12_Witness ==
    /\ app.method = "upload"
    /\ "success" \in app.shown
    /\ "results" \in app.shown
    /\ Len(log) = 1
    /\ log[1].ret.kind = "ok"
    /\ "Notes" \in app.file.columns

\* An upload lacking a column is refused without an engine call.
C12_RefusalSeen ==
    /\ app.method = "upload"
    /\ "missing_columns" \in app.shown
    /\ log = <<>>

====
